---- MODULE Spec2Model ----
(***************************************************************************)
(* A model of ahb_diff/main.py: the two-cursor alignment of two AHB tables *)
(* (align_columns, create_row), the parsing of format version tags, the    *)
(* pairing of consecutive format version directories and the batch run.    *)
(*                                                                         *)
(* A cell value is a string.  The null marker of pandas (float nan) is the *)
(* value NA, which is different from the four characters "nan".            *)
(***************************************************************************)
EXTENDS Integers, Sequences, FiniteSets, TLC

VARIABLES
    previous_pruefid,      \* align_columns: the table of the previous version
    subsequent_pruefid,    \* align_columns: the table of the subsequent version
    df_old,                \* previous_pruefid with its key column renamed
    df_new,                \* subsequent_pruefid with its key column renamed
    nan_shared,            \* whether the null markers of the two key lists are one object
    pc,                    \* align_columns: "start", "loop", "done", "raised", "idle"
    i,                     \* cursor into segments_old
    j,                     \* cursor into segments_new
    result_rows,           \* the rows appended so far
    decisions,             \* per appended row: the diff tag and the i, j given to create_row
    iterations,            \* number of passes through the while loop
    result_df,             \* the returned data frame, NoFrame before the return
    formatversion,         \* parse_formatversions: the string given, as its characters
    parse_pc,              \* parse_formatversions: "call", "done", "idle"
    parsed,                \* parse_formatversions: what it returned or that it raised
    submodule,             \* the SUBMODULE directory: whether it exists, and its entries
    formatversion_list,    \* determine_consecutive_formatversions: the sorted names
    consecutive_formatversions, \* the pairs appended so far
    fv_index,              \* the i of the for loop (0-based)
    versions_pc,           \* "call", "pairs", "done", "raised", "idle"
    discovery,             \* process_submodule: what determine_consecutive_formatversions does
    work,                  \* process_submodule: per version pair, its listing and its files
    batch_pc,              \* "start", "pair", "files", "done", "aborted", "idle"
    pair_index,            \* the version pair at hand (1-based)
    file_index,            \* the check-id at hand within the pair (1-based)
    processed,             \* <<pair, file>> exported
    reported,              \* <<pair, file, error>> caught and logged
    escaped                \* the error that left process_submodule, "" when none

alignVars == <<previous_pruefid, subsequent_pruefid, df_old, df_new, nan_shared, pc, i, j,
               result_rows, decisions, iterations, result_df>>

parseVars == <<formatversion, parse_pc, parsed>>

versionVars == <<submodule, formatversion_list, consecutive_formatversions, fv_index, versions_pc>>

batchVars == <<discovery, work, batch_pc, pair_index, file_index, processed, reported, escaped>>

vars == <<alignVars, parseVars, versionVars, batchVars>>

-----------------------------------------------------------------------------
(* Bounds of the model. *)

\* longest key sequence of a table of InitKeys
MaxLen == 3

\* most rows of a table of InitRows
MaxRows == 2

-----------------------------------------------------------------------------
(* Values. *)

NA == "<NA>"
None == -1
NoFrame == [columns |-> <<>>, rows |-> <<>>, returned |-> FALSE]

Range(s) == {s[k] : k \in 1..Len(s)}

Min(S) == CHOOSE x \in S : \A y \in S : x <= y

\* pd.isna on a cell
isna(value) == value = NA

\* the == of two cells: nan is unequal to everything, itself included
PyEq(a, b) == a = b /\ a # NA

\* what list.index compares with: identity first, then ==
PyIdenticalOrEqual(a, b) == PyEq(a, b) \/ (a = NA /\ b = NA /\ nan_shared)

\* .astype(str) on a cell
astype_str(value) == IF value = NA THEN "nan" ELSE value

\* .replace("nan", "") on a cell
replace_nan(value) == IF value = "nan" THEN "" ELSE value

-----------------------------------------------------------------------------
(* Tables: [columns |-> sequence of names, rows |-> sequence of functions   *)
(* from the names to cell values].                                         *)

previous_formatversion == "FV2410"
subsequent_formatversion == "FV2504"

SegmentnameCol(version) == "Segmentname_" \o version

Suffixed(col, version) == col \o "_" \o version

RenameCol(col, version) ==
    IF col = "Segmentname" THEN SegmentnameCol(version) ELSE col

\* df.rename(columns={"Segmentname": "Segmentname_<version>"})
rename(df, version) ==
    LET orig(c) == IF c = SegmentnameCol(version) /\ "Segmentname" \in Range(df.columns)
                   THEN "Segmentname" ELSE c
    IN [columns |-> [k \in 1..Len(df.columns) |-> RenameCol(df.columns[k], version)],
        rows    |-> [k \in 1..Len(df.rows) |->
                       [c \in {RenameCol(d, version) : d \in Range(df.columns)} |->
                           df.rows[k][orig(c)]]]]

\* DataFrame.empty: no rows or no columns
empty(df) == Len(df.rows) = 0 \/ Len(df.columns) = 0

old_columns == SelectSeq(previous_pruefid.columns, LAMBDA col : col # "Segmentname")
new_columns == SelectSeq(subsequent_pruefid.columns, LAMBDA col : col # "Segmentname")

\* column_order with the diff column put last
column_order_DiffLast ==
    <<SegmentnameCol(previous_formatversion)>>
    \o [k \in 1..Len(old_columns) |-> Suffixed(old_columns[k], previous_formatversion)]
    \o <<SegmentnameCol(subsequent_formatversion)>>
    \o [k \in 1..Len(new_columns) |-> Suffixed(new_columns[k], subsequent_formatversion)]
    \o <<"diff">>

column_order ==
    <<SegmentnameCol(previous_formatversion)>>
    \o [k \in 1..Len(old_columns) |-> Suffixed(old_columns[k], previous_formatversion)]
    \o <<"diff">>
    \o <<SegmentnameCol(subsequent_formatversion)>>
    \o [k \in 1..Len(new_columns) |-> Suffixed(new_columns[k], subsequent_formatversion)]

\* the names of the data cells one side of a row holds
DataNames(df, version) ==
    {Suffixed(col, version) : col \in Range(df.columns) \ {SegmentnameCol(version)}}

DataColOf(df, version, name) ==
    CHOOSE col \in Range(df.columns) \ {SegmentnameCol(version)} :
        Suffixed(col, version) = name

populate_row_values(df, row, idx, version, is_segmentname) ==
    IF idx = None THEN row
    ELSE LET segmentname_col == SegmentnameCol(version)
             src == df.rows[idx + 1]
         IN IF is_segmentname
            THEN (segmentname_col :> src[segmentname_col]) @@ row
            ELSE [name \in DataNames(df, version) |->
                    LET value == src[DataColOf(df, version, name)]
                    IN IF isna(value) THEN "" ELSE value] @@ row

create_row(previous_df, new_df, ii, jj) ==
    LET row0 == [name \in {SegmentnameCol(previous_formatversion), "diff",
                           SegmentnameCol(subsequent_formatversion)} |-> ""]
        row1 == [name \in DataNames(previous_df, previous_formatversion) |-> ""] @@ row0
        row2 == [name \in DataNames(new_df, subsequent_formatversion) |-> ""] @@ row1
        row3 == populate_row_values(previous_df, row2, ii, previous_formatversion, TRUE)
        row4 == populate_row_values(new_df, row3, jj, subsequent_formatversion, TRUE)
        row5 == populate_row_values(previous_df, row4, ii, previous_formatversion, FALSE)
    IN populate_row_values(new_df, row5, jj, subsequent_formatversion, FALSE)

\* row["diff"] = tag
SetDiff(row, tag) == [row EXCEPT !["diff"] = tag]

\* the df.iloc[idx]["Segmentname_<formatversion>"] of create_row and the
\* df["Segmentname_<formatversion>"] of the general path raise KeyError without the column
HasSegmentname(df, version) == SegmentnameCol(version) \in Range(df.columns)

segments_old == [k \in 1..Len(df_old.rows) |-> df_old.rows[k][SegmentnameCol(previous_formatversion)]]
segments_new == [k \in 1..Len(df_new.rows) |-> df_new.rows[k][SegmentnameCol(subsequent_formatversion)]]

\* pd.DataFrame(rows)[order]: the columns of order, each row cut to them
SelectColumns(rows, order) ==
    [columns  |-> order,
     rows     |-> [k \in 1..Len(rows) |-> [c \in Range(order) |-> rows[k][c]]],
     returned |-> TRUE]

\* pd.DataFrame(rows).astype(str).replace("nan", "")
AsStrReplaceNan(rows) ==
    [k \in 1..Len(rows) |-> [c \in DOMAIN rows[k] |-> replace_nan(astype_str(rows[k][c]))]]

\* MatchOffsets with a look-ahead of one row only: the value is sought in
\* segments_new[j:j + 2]
MatchOffsets_NextRowOnly ==
    {k \in 0..(IF Len(segments_new) - j - 1 > 1 THEN 1 ELSE Len(segments_new) - j - 1) :
        PyIdenticalOrEqual(segments_new[j + k + 1], segments_old[i + 1])}

\* segments_new[j:].index(segments_old[i]): the offsets at which the value is found
MatchOffsets ==
    {k \in 0..(Len(segments_new) - j - 1) :
        PyIdenticalOrEqual(segments_new[j + k + 1], segments_old[i + 1])}

Decision(tag, ii, jj) == [diff |-> tag, i |-> ii, j |-> jj]

\* one past the number of passes the two cursors allow
IterationCap == Len(previous_pruefid.rows) + Len(subsequent_pruefid.rows) + 1

\* a pass is counted; a count past IterationCap goes back to it, so that the count
\* stays finite and every further pass is still a step
Tick == IF iterations <= IterationCap THEN iterations + 1 ELSE IterationCap

-----------------------------------------------------------------------------
(* align_columns, one action per return, per raise and per branch of the   *)
(* while loop.                                                             *)

\* line 241: both frames empty, a frame of column_order without rows
ReturnEmptyFrame ==
    /\ pc = "start"
    /\ empty(df_old) /\ empty(df_new)
    /\ result_df' = SelectColumns(<<>>, column_order)
    /\ pc' = "done"
    /\ UNCHANGED <<parseVars, versionVars, batchVars>>
    /\ UNCHANGED <<previous_pruefid, subsequent_pruefid, df_old, df_new, nan_shared, i, j,
                   result_rows, decisions, iterations>>

\* lines 244-258: df_new empty, every row of df_old REMOVED
ShortcutAllRemoved ==
    /\ pc = "start"
    /\ ~(empty(df_old) /\ empty(df_new))
    /\ empty(df_new)
    /\ HasSegmentname(df_old, previous_formatversion)
    /\ result_rows' = [k \in 1..Len(df_old.rows) |->
                          SetDiff(create_row(df_old, df_new, k - 1, None), "REMOVED")]
    /\ decisions' = [k \in 1..Len(df_old.rows) |-> Decision("REMOVED", k - 1, None)]
    /\ result_df' = SelectColumns(result_rows', column_order)
    /\ pc' = "done"
    /\ UNCHANGED <<parseVars, versionVars, batchVars>>
    /\ UNCHANGED <<previous_pruefid, subsequent_pruefid, df_old, df_new, nan_shared, i, j, iterations>>

\* lines 260-274: df_old empty, every row of df_new NEW
ShortcutAllNew ==
    /\ pc = "start"
    /\ ~empty(df_new)
    /\ empty(df_old)
    /\ HasSegmentname(df_new, subsequent_formatversion)
    /\ result_rows' = [k \in 1..Len(df_new.rows) |->
                          SetDiff(create_row(df_old, df_new, None, k - 1), "NEW")]
    /\ decisions' = [k \in 1..Len(df_new.rows) |-> Decision("NEW", None, k - 1)]
    /\ result_df' = SelectColumns(result_rows', column_order)
    /\ pc' = "done"
    /\ UNCHANGED <<parseVars, versionVars, batchVars>>
    /\ UNCHANGED <<previous_pruefid, subsequent_pruefid, df_old, df_new, nan_shared, i, j, iterations>>

\* the frame whose key column a path reads
KeyErrorRaised ==
    \/ /\ ~empty(df_old) /\ empty(df_new)
       /\ ~HasSegmentname(df_old, previous_formatversion)
    \/ /\ empty(df_old) /\ ~empty(df_new)
       /\ ~HasSegmentname(df_new, subsequent_formatversion)
    \/ /\ ~empty(df_old) /\ ~empty(df_new)
       /\ \/ ~HasSegmentname(df_old, previous_formatversion)
          \/ ~HasSegmentname(df_new, subsequent_formatversion)

\* lines 172, 276, 277: a frame without its Segmentname column raises KeyError
RaiseKeyError ==
    /\ pc = "start"
    /\ KeyErrorRaised
    /\ pc' = "raised"
    /\ UNCHANGED <<parseVars, versionVars, batchVars>>
    /\ UNCHANGED <<previous_pruefid, subsequent_pruefid, df_old, df_new, nan_shared, i, j,
                   result_rows, decisions, iterations, result_df>>

\* lines 276-281
EnterLoop ==
    /\ pc = "start"
    /\ ~empty(df_old) /\ ~empty(df_new)
    /\ HasSegmentname(df_old, previous_formatversion)
    /\ HasSegmentname(df_new, subsequent_formatversion)
    /\ i' = 0 /\ j' = 0
    /\ result_rows' = <<>>
    /\ decisions' = <<>>
    /\ pc' = "loop"
    /\ UNCHANGED <<parseVars, versionVars, batchVars>>
    /\ UNCHANGED <<previous_pruefid, subsequent_pruefid, df_old, df_new, nan_shared, iterations, result_df>>

LoopCondition == i < Len(segments_old) \/ j < Len(segments_new)

\* lines 285-295
AppendNew ==
    /\ pc = "loop" /\ LoopCondition
    /\ i >= Len(segments_old)
    /\ result_rows' = Append(result_rows, SetDiff(create_row(df_old, df_new, None, j), "NEW"))
    /\ decisions' = Append(decisions, Decision("NEW", None, j))
    /\ j' = j + 1
    /\ iterations' = Tick
    /\ UNCHANGED <<parseVars, versionVars, batchVars>>
    /\ UNCHANGED <<previous_pruefid, subsequent_pruefid, df_old, df_new, nan_shared, pc, i, result_df>>

\* lines 296-306
AppendRemoved ==
    /\ pc = "loop" /\ LoopCondition
    /\ i < Len(segments_old)
    /\ j >= Len(segments_new)
    /\ result_rows' = Append(result_rows, SetDiff(create_row(df_old, df_new, i, None), "REMOVED"))
    /\ decisions' = Append(decisions, Decision("REMOVED", i, None))
    /\ i' = i + 1
    /\ iterations' = Tick
    /\ UNCHANGED <<parseVars, versionVars, batchVars>>
    /\ UNCHANGED <<previous_pruefid, subsequent_pruefid, df_old, df_new, nan_shared, pc, j, result_df>>

\* lines 307-319
AppendUnchanged ==
    /\ pc = "loop" /\ LoopCondition
    /\ i < Len(segments_old)
    /\ j < Len(segments_new)
    /\ PyEq(segments_old[i + 1], segments_new[j + 1])
    /\ result_rows' = Append(result_rows, SetDiff(create_row(df_old, df_new, i, j), ""))
    /\ decisions' = Append(decisions, Decision("", i, j))
    /\ i' = i + 1
    /\ j' = j + 1
    /\ iterations' = Tick
    /\ UNCHANGED <<parseVars, versionVars, batchVars>>
    /\ UNCHANGED <<previous_pruefid, subsequent_pruefid, df_old, df_new, nan_shared, pc, result_df>>

\* lines 320-335: the value is found at offset next_match_new, that many rows are NEW
LookAheadFound ==
    /\ pc = "loop" /\ LoopCondition
    /\ i < Len(segments_old)
    /\ j < Len(segments_new)
    /\ ~PyEq(segments_old[i + 1], segments_new[j + 1])
    /\ MatchOffsets # {}
    /\ LET next_match_new == Min(MatchOffsets)
       IN /\ result_rows' = result_rows \o
                 [k \in 1..next_match_new |->
                     SetDiff(create_row(df_old, df_new, None, j + k - 1), "NEW")]
          /\ decisions' = decisions \o
                 [k \in 1..next_match_new |-> Decision("NEW", None, j + k - 1)]
          /\ j' = j + next_match_new
    /\ iterations' = Tick
    /\ UNCHANGED <<parseVars, versionVars, batchVars>>
    /\ UNCHANGED <<previous_pruefid, subsequent_pruefid, df_old, df_new, nan_shared, pc, i, result_df>>

\* LookAheadNotFound with j handed to create_row as well, as the UNCHANGED branch does
LookAheadNotFound_PopulatesBoth ==
    /\ pc = "loop" /\ LoopCondition
    /\ i < Len(segments_old)
    /\ j < Len(segments_new)
    /\ ~PyEq(segments_old[i + 1], segments_new[j + 1])
    /\ MatchOffsets = {}
    /\ result_rows' = Append(result_rows, SetDiff(create_row(df_old, df_new, i, j), "REMOVED"))
    /\ decisions' = Append(decisions, Decision("REMOVED", i, None))
    /\ i' = i + 1
    /\ iterations' = Tick
    /\ UNCHANGED <<parseVars, versionVars, batchVars>>
    /\ UNCHANGED <<previous_pruefid, subsequent_pruefid, df_old, df_new, nan_shared, pc, j, result_df>>

\* lines 336-347: index raises ValueError, the row of df_old is REMOVED
LookAheadNotFound ==
    /\ pc = "loop" /\ LoopCondition
    /\ i < Len(segments_old)
    /\ j < Len(segments_new)
    /\ ~PyEq(segments_old[i + 1], segments_new[j + 1])
    /\ MatchOffsets = {}
    /\ result_rows' = Append(result_rows, SetDiff(create_row(df_old, df_new, i, None), "REMOVED"))
    /\ decisions' = Append(decisions, Decision("REMOVED", i, None))
    /\ i' = i + 1
    /\ iterations' = Tick
    /\ UNCHANGED <<parseVars, versionVars, batchVars>>
    /\ UNCHANGED <<previous_pruefid, subsequent_pruefid, df_old, df_new, nan_shared, pc, j, result_df>>

\* lines 349-351: the loop is left
ReturnAligned ==
    /\ pc = "loop" /\ ~LoopCondition
    /\ result_df' = SelectColumns(AsStrReplaceNan(result_rows), column_order)
    /\ pc' = "done"
    /\ UNCHANGED <<parseVars, versionVars, batchVars>>
    /\ UNCHANGED <<previous_pruefid, subsequent_pruefid, df_old, df_new, nan_shared, i, j,
                   result_rows, decisions, iterations>>

AlignNext ==
    \/ ReturnEmptyFrame
    \/ ShortcutAllRemoved
    \/ ShortcutAllNew
    \/ RaiseKeyError
    \/ EnterLoop
    \/ AppendNew
    \/ AppendRemoved
    \/ AppendUnchanged
    \/ LookAheadFound
    \/ LookAheadNotFound
    \/ ReturnAligned

-----------------------------------------------------------------------------
(* The tables align_columns is given. *)

SeqsUpTo(S, n) == UNION {[1..m -> S] : m \in 0..n}

\* the keys of the rows of Spec
Keys == {"A", "B", "C", NA}

\* a table of the given columns whose rows hold the given keys
KeyTable(columns, keys) ==
    [columns |-> columns,
     rows    |-> [k \in 1..Len(keys) |->
                    [c \in Range(columns) |-> IF c = "Segmentname" THEN keys[k] ELSE "x"]]]

\* lines 224-227, then the locals as align_columns first finds them
AlignStart ==
    /\ df_old = rename(previous_pruefid, previous_formatversion)
    /\ df_new = rename(subsequent_pruefid, subsequent_formatversion)
    /\ pc = "start"
    /\ i = 0 /\ j = 0
    /\ result_rows = <<>>
    /\ decisions = <<>>
    /\ iterations = 0
    /\ result_df = NoFrame

\* the keys first met in the order of KeyOrder: renaming the keys of both tables
\* alike changes no comparison, so one table of each renaming class is enough
KeyOrder == <<"A", "B", "C">>

InKeyOrder(keys) ==
    \A k \in 1..Len(keys) : \A n \in 2..Len(KeyOrder) :
        keys[k] = KeyOrder[n] => \E m \in 1..(k - 1) : keys[m] = KeyOrder[n - 1]

HasNA(table) == \E r \in Range(table.rows) : "Segmentname" \in DOMAIN r /\ r["Segmentname"] = NA

\* one object or two matters only when both key lists hold a null marker
NanSharedChoices == IF HasNA(previous_pruefid) /\ HasNA(subsequent_pruefid) THEN BOOLEAN ELSE {FALSE}

\* tables that differ in their keys only
InitKeys ==
    /\ \E keys \in {s \in SeqsUpTo(Keys, MaxLen) : InKeyOrder(s)} :
          previous_pruefid = KeyTable(<<"Segmentname", "Code">>, keys)
    /\ \E keys \in SeqsUpTo(Keys, MaxLen) :
          subsequent_pruefid = KeyTable(<<"Code", "Segmentname">>, keys)

\* the column lists of the tables of InitRows; the last has no key column
PreviousColumnLists == {<<"Segmentname">>, <<"Code", "Segmentname", "Bedingung">>, <<"Code">>}
SubsequentColumnLists == {<<"Segmentname", "Code">>, <<"Bedingung", "Segmentname">>, <<"Code">>}

\* <<key, value of the Code cell>> of a row: a text, the text "nan" or the null marker
RowKinds == {<<"A", "x">>, <<NA, "x">>, <<"nan", "x">>, <<"A", NA>>, <<"A", "nan">>}

RowsTable(columns, kinds) ==
    [columns |-> columns,
     rows    |-> [k \in 1..Len(kinds) |->
                    [c \in Range(columns) |->
                        IF c = "Segmentname" THEN kinds[k][1]
                        ELSE IF c = "Code" THEN kinds[k][2] ELSE "y"]]]

\* tables that differ in their columns and in the values of their cells
InitRows ==
    /\ \E columns \in PreviousColumnLists : \E kinds \in SeqsUpTo(RowKinds, MaxRows) :
          previous_pruefid = RowsTable(columns, kinds)
    /\ \E columns \in SubsequentColumnLists : \E kinds \in SeqsUpTo(RowKinds, MaxRows) :
          subsequent_pruefid = RowsTable(columns, kinds)

AlignInit ==
    /\ InitKeys \/ InitRows
    /\ nan_shared \in NanSharedChoices
    /\ AlignStart

\* align_columns is not running
AlignIdle ==
    /\ previous_pruefid = KeyTable(<<"Segmentname">>, <<>>)
    /\ subsequent_pruefid = KeyTable(<<"Segmentname">>, <<>>)
    /\ df_old = previous_pruefid /\ df_new = subsequent_pruefid
    /\ nan_shared = FALSE
    /\ pc = "idle"
    /\ i = 0 /\ j = 0
    /\ result_rows = <<>>
    /\ decisions = <<>>
    /\ iterations = 0
    /\ result_df = NoFrame

-----------------------------------------------------------------------------
(* parse_formatversions.  A string is the sequence of its characters.      *)

DecimalDigits == {"0", "1", "2", "3", "4", "5", "6", "7", "8", "9"}

DigitValue(c) ==
    CASE c = "0" -> 0 [] c = "1" -> 1 [] c = "2" -> 2 [] c = "3" -> 3 [] c = "4" -> 4
      [] c = "5" -> 5 [] c = "6" -> 6 [] c = "7" -> 7 [] c = "8" -> 8 [] c = "9" -> 9

Raised == [raised |-> TRUE, year |-> 0, month |-> 0]
Returned(year, month) == [raised |-> FALSE, year |-> year, month |-> month]

\* int() of a string of two characters: blanks around the number are stripped, one
\* sign may lead it; anything else raises ValueError
PyInt(a, b) ==
    CASE a \in DecimalDigits /\ b \in DecimalDigits ->
             [ok |-> TRUE, value |-> 10 * DigitValue(a) + DigitValue(b)]
      [] a = " " /\ b \in DecimalDigits -> [ok |-> TRUE, value |-> DigitValue(b)]
      [] a \in DecimalDigits /\ b = " " -> [ok |-> TRUE, value |-> DigitValue(a)]
      [] a = "+" /\ b \in DecimalDigits -> [ok |-> TRUE, value |-> DigitValue(b)]
      [] a = "-" /\ b \in DecimalDigits -> [ok |-> TRUE, value |-> 0 - DigitValue(b)]
      [] OTHER -> [ok |-> FALSE, value |-> 0]

startswith_FV(name) == Len(name) >= 2 /\ name[1] = "F" /\ name[2] = "V"

parse_formatversions(name) ==
    IF ~startswith_FV(name) \/ Len(name) # 6 THEN Raised
    ELSE LET year == PyInt(name[3], name[4])
             month == PyInt(name[5], name[6])
         IN IF ~year.ok \/ ~month.ok THEN Raised
            ELSE IF ~(1 <= month.value /\ month.value <= 12) THEN Raised
            ELSE Returned(2000 + year.value, month.value)

CallParse ==
    /\ parse_pc = "call"
    /\ parsed' = parse_formatversions(formatversion)
    /\ parse_pc' = "done"
    /\ UNCHANGED formatversion
    /\ UNCHANGED <<alignVars, versionVars, batchVars>>

ParseNext == CallParse

\* the strings parse_formatversions is given: a head, then four characters
Heads == {<<"F", "V">>, <<"F", "W">>, <<"V">>, <<"F", "V", "2">>}
TailChars == {"0", "1", "2", "3", "9", "+", "-", " ", "x"}

ParseInit ==
    /\ \E head \in Heads : \E tail \in [1..4 -> TailChars] : formatversion = head \o tail
    /\ parse_pc = "call"
    /\ parsed = Raised

ParseIdle ==
    /\ formatversion = <<>>
    /\ parse_pc = "idle"
    /\ parsed = Raised

-----------------------------------------------------------------------------
(* get_available_formatversions, is_formatversion_empty and                *)
(* determine_consecutive_formatversions.                                   *)

FV2410 == <<"F", "V", "2", "4", "1", "0">>
FV2504 == <<"F", "V", "2", "5", "0", "4">>
FV2510 == <<"F", "V", "2", "5", "1", "0">>
FV2604 == <<"F", "V", "2", "6", "0", "4">>
FV25xx == <<"F", "V", "2", "5", "x", "x">>
README == <<"R", "E", "A", "D", "M", "E">>

VersionNames == {FV2410, FV2504, FV2510, FV2604}
OtherNames == {FV25xx, README}

\* an entry of SUBMODULE: no such directory, a directory without a
\* <nachrichtenformat>/csv directory, or one with
EntryStates == {"absent", "empty", "filled"}

KeyLess(a, b) == a.year < b.year \/ (a.year = b.year /\ a.month < b.month)

OrderingsOf(S) ==
    {s \in [1..Cardinality(S) -> S] : \A a, b \in 1..Cardinality(S) : a # b => s[a] # s[b]}

\* formatversion_dirs.sort(key=parse_formatversions, reverse=True); no two names
\* of the model have one key
SortedLatestFirst(S) ==
    CHOOSE s \in OrderingsOf(S) :
        \A k \in 1..(Len(s) - 1) :
            ~KeyLess(parse_formatversions(s[k]), parse_formatversions(s[k + 1]))

\* the names the comprehension of lines 46-48 keeps
ListedNames ==
    {name \in DOMAIN submodule.entries :
        /\ submodule.entries[name] # "absent"
        /\ startswith_FV(name)
        /\ Len(name) = 6}

\* is_formatversion_empty without line 63: a directory that exists counts as filled
is_formatversion_empty_OnlyMissing(name) == submodule.entries[name] = "absent"

is_formatversion_empty(name) == submodule.entries[name] # "filled"

\* lines 42-44: SUBMODULE does not exist, the list is empty and so is the result
NoSubmodule ==
    /\ versions_pc = "call"
    /\ ~submodule.exists
    /\ formatversion_list' = <<>>
    /\ versions_pc' = "pairs"
    /\ UNCHANGED <<submodule, consecutive_formatversions, fv_index>>
    /\ UNCHANGED <<alignVars, parseVars, batchVars>>

\* lines 46-52
ListVersions ==
    /\ versions_pc = "call"
    /\ submodule.exists
    /\ \A name \in ListedNames : ~parse_formatversions(name).raised
    /\ formatversion_list' = SortedLatestFirst(ListedNames)
    /\ versions_pc' = "pairs"
    /\ UNCHANGED <<submodule, consecutive_formatversions, fv_index>>
    /\ UNCHANGED <<alignVars, parseVars, batchVars>>

\* line 50: the key of a listed name raises ValueError
ListVersionsRaises ==
    /\ versions_pc = "call"
    /\ submodule.exists
    /\ \E name \in ListedNames : parse_formatversions(name).raised
    /\ versions_pc' = "raised"
    /\ UNCHANGED <<submodule, formatversion_list, consecutive_formatversions, fv_index>>
    /\ UNCHANGED <<alignVars, parseVars, batchVars>>

\* lines 73-84: one of the two is empty, the pair is skipped
SkipEmptyPair ==
    /\ versions_pc = "pairs"
    /\ fv_index < Len(formatversion_list) - 1
    /\ LET subsequent_formatversion_ == formatversion_list[fv_index + 1]
           previous_formatversion_ == formatversion_list[fv_index + 2]
       IN \/ is_formatversion_empty(subsequent_formatversion_)
          \/ is_formatversion_empty(previous_formatversion_)
    /\ fv_index' = fv_index + 1
    /\ UNCHANGED <<submodule, formatversion_list, consecutive_formatversions, versions_pc>>
    /\ UNCHANGED <<alignVars, parseVars, batchVars>>

\* lines 73-86
AppendPair ==
    /\ versions_pc = "pairs"
    /\ fv_index < Len(formatversion_list) - 1
    /\ LET subsequent_formatversion_ == formatversion_list[fv_index + 1]
           previous_formatversion_ == formatversion_list[fv_index + 2]
       IN /\ ~is_formatversion_empty(subsequent_formatversion_)
          /\ ~is_formatversion_empty(previous_formatversion_)
          /\ consecutive_formatversions' =
                Append(consecutive_formatversions,
                       <<subsequent_formatversion_, previous_formatversion_>>)
    /\ fv_index' = fv_index + 1
    /\ UNCHANGED <<submodule, formatversion_list, versions_pc>>
    /\ UNCHANGED <<alignVars, parseVars, batchVars>>

\* line 88
ReturnPairs ==
    /\ versions_pc = "pairs"
    /\ ~(fv_index < Len(formatversion_list) - 1)
    /\ versions_pc' = "done"
    /\ UNCHANGED <<submodule, formatversion_list, consecutive_formatversions, fv_index>>
    /\ UNCHANGED <<alignVars, parseVars, batchVars>>

VersionsNext ==
    \/ NoSubmodule
    \/ ListVersions
    \/ ListVersionsRaises
    \/ SkipEmptyPair
    \/ AppendPair
    \/ ReturnPairs

VersionsInit ==
    /\ \/ submodule \in [exists : {TRUE},
                          entries : {e \in [VersionNames \cup OtherNames -> EntryStates] :
                                        \A name \in OtherNames : e[name] # "empty"}]
       \/ submodule = [exists |-> FALSE,
                       entries |-> [name \in VersionNames \cup OtherNames |-> "absent"]]
    /\ formatversion_list = <<>>
    /\ consecutive_formatversions = <<>>
    /\ fv_index = 0
    /\ versions_pc = "call"

VersionsIdle ==
    /\ submodule = [exists |-> FALSE,
                    entries |-> [name \in VersionNames \cup OtherNames |-> "absent"]]
    /\ formatversion_list = <<>>
    /\ consecutive_formatversions = <<>>
    /\ fv_index = 0
    /\ versions_pc = "idle"

-----------------------------------------------------------------------------
(* process_submodule and process_files.                                    *)

\* most version pairs of a run, most check-ids of a pair
MaxPairs == 2
MaxFiles == 2

\* a pair of files of one check-id: fine, an empty file, a file that cannot be
\* opened, rows that cannot be tokenized, a table with rows and no Segmentname column
FileKinds == {"ok", "empty_file", "unreadable", "bad_rows", "no_segmentname"}

\* what lines 479-489 raise for such a pair, "" when nothing: read_csv raises
\* EmptyDataError, PermissionError or ParserError, align_columns raises KeyError
\* (RaiseKeyError)
RaisedFor(kind) ==
    CASE kind = "ok" -> ""
      [] kind = "empty_file" -> "EmptyDataError"
      [] kind = "unreadable" -> "PermissionError"
      [] kind = "bad_rows" -> "ParserError"
      [] kind = "no_segmentname" -> "KeyError"

\* the classes an exception is an instance of
ClassesOf(error) ==
    CASE error = "EmptyDataError" -> {"EmptyDataError", "ValueError", "Exception"}
      [] error = "ParserError" -> {"ParserError", "ValueError", "Exception"}
      [] error = "ValueError" -> {"ValueError", "Exception"}
      [] error = "PermissionError" -> {"PermissionError", "OSError", "Exception"}
      [] error = "KeyError" -> {"KeyError", "LookupError", "Exception"}

\* the except clauses of process_files (lines 493-497)
ProcessFilesHandlers == {"EmptyDataError", "OSError", "ValueError"}

\* the except clause of process_submodule (line 517)
ProcessSubmoduleHandlers == {"OSError", "EmptyDataError", "ValueError"}

Handles(handlers, error) == ClassesOf(error) \cap handlers # {}

\* line 505: a malformed version tag among the directories, ValueError leaves the run
DiscoveryRaises ==
    /\ batch_pc = "start"
    /\ discovery = "ValueError"
    /\ escaped' = "ValueError"
    /\ batch_pc' = "aborted"
    /\ UNCHANGED <<discovery, work, pair_index, file_index, processed, reported>>
    /\ UNCHANGED <<alignVars, parseVars, versionVars>>

\* lines 507-509
NoPairs ==
    /\ batch_pc = "start"
    /\ discovery = "pairs"
    /\ work = <<>>
    /\ batch_pc' = "done"
    /\ UNCHANGED <<discovery, work, pair_index, file_index, processed, reported, escaped>>
    /\ UNCHANGED <<alignVars, parseVars, versionVars>>

\* line 511, the first pair
BeginPairs ==
    /\ batch_pc = "start"
    /\ discovery = "pairs"
    /\ work # <<>>
    /\ pair_index' = 1
    /\ batch_pc' = "pair"
    /\ UNCHANGED <<discovery, work, file_index, processed, reported, escaped>>
    /\ UNCHANGED <<alignVars, parseVars, versionVars>>

\* line 467 raises OSError, line 517 catches it: on to the next pair
ListingFails ==
    /\ batch_pc = "pair"
    /\ pair_index <= Len(work)
    /\ work[pair_index].listing = "OSError"
    /\ Handles(ProcessSubmoduleHandlers, "PermissionError")
    /\ reported' = reported \cup {<<pair_index, 0, "PermissionError">>}
    /\ pair_index' = pair_index + 1
    /\ UNCHANGED <<discovery, work, batch_pc, file_index, processed, escaped>>
    /\ UNCHANGED <<alignVars, parseVars, versionVars>>

\* lines 469-471
NoMatchingFiles ==
    /\ batch_pc = "pair"
    /\ pair_index <= Len(work)
    /\ work[pair_index].listing = "ok"
    /\ work[pair_index].files = <<>>
    /\ pair_index' = pair_index + 1
    /\ UNCHANGED <<discovery, work, batch_pc, file_index, processed, reported, escaped>>
    /\ UNCHANGED <<alignVars, parseVars, versionVars>>

\* line 475, the first check-id
BeginFiles ==
    /\ batch_pc = "pair"
    /\ pair_index <= Len(work)
    /\ work[pair_index].listing = "ok"
    /\ work[pair_index].files # <<>>
    /\ file_index' = 1
    /\ batch_pc' = "files"
    /\ UNCHANGED <<discovery, work, pair_index, processed, reported, escaped>>
    /\ UNCHANGED <<alignVars, parseVars, versionVars>>

FileAtHand == work[pair_index].files[file_index]

\* lines 478-491
FileExported ==
    /\ batch_pc = "files"
    /\ file_index <= Len(work[pair_index].files)
    /\ RaisedFor(FileAtHand) = ""
    /\ processed' = processed \cup {<<pair_index, file_index>>}
    /\ file_index' = file_index + 1
    /\ UNCHANGED <<discovery, work, batch_pc, pair_index, reported, escaped>>
    /\ UNCHANGED <<alignVars, parseVars, versionVars>>

\* lines 493-498: an except clause of process_files takes the error
FileErrorCaught ==
    /\ batch_pc = "files"
    /\ file_index <= Len(work[pair_index].files)
    /\ RaisedFor(FileAtHand) # ""
    /\ Handles(ProcessFilesHandlers, RaisedFor(FileAtHand))
    /\ reported' = reported \cup {<<pair_index, file_index, RaisedFor(FileAtHand)>>}
    /\ file_index' = file_index + 1
    /\ UNCHANGED <<discovery, work, batch_pc, pair_index, processed, escaped>>
    /\ UNCHANGED <<alignVars, parseVars, versionVars>>

\* no except clause of process_files takes the error; line 517 takes it or it leaves
\* process_submodule
FileErrorPropagates ==
    /\ batch_pc = "files"
    /\ file_index <= Len(work[pair_index].files)
    /\ RaisedFor(FileAtHand) # ""
    /\ ~Handles(ProcessFilesHandlers, RaisedFor(FileAtHand))
    /\ IF Handles(ProcessSubmoduleHandlers, RaisedFor(FileAtHand))
       THEN /\ reported' = reported \cup {<<pair_index, 0, RaisedFor(FileAtHand)>>}
            /\ pair_index' = pair_index + 1
            /\ batch_pc' = "pair"
            /\ UNCHANGED escaped
       ELSE /\ escaped' = RaisedFor(FileAtHand)
            /\ batch_pc' = "aborted"
            /\ UNCHANGED <<reported, pair_index>>
    /\ UNCHANGED <<discovery, work, file_index, processed>>
    /\ UNCHANGED <<alignVars, parseVars, versionVars>>

\* the for loop of line 475 is through
EndOfFiles ==
    /\ batch_pc = "files"
    /\ file_index > Len(work[pair_index].files)
    /\ pair_index' = pair_index + 1
    /\ batch_pc' = "pair"
    /\ UNCHANGED <<discovery, work, file_index, processed, reported, escaped>>
    /\ UNCHANGED <<alignVars, parseVars, versionVars>>

\* the for loop of line 511 is through
FinishRun ==
    /\ batch_pc = "pair"
    /\ pair_index > Len(work)
    /\ batch_pc' = "done"
    /\ UNCHANGED <<discovery, work, pair_index, file_index, processed, reported, escaped>>
    /\ UNCHANGED <<alignVars, parseVars, versionVars>>

BatchNext ==
    \/ DiscoveryRaises
    \/ NoPairs
    \/ BeginPairs
    \/ ListingFails
    \/ NoMatchingFiles
    \/ BeginFiles
    \/ FileExported
    \/ FileErrorCaught
    \/ FileErrorPropagates
    \/ EndOfFiles
    \/ FinishRun

PairWork ==
    [listing : {"ok"}, files : SeqsUpTo(FileKinds, MaxFiles)]
    \cup {[listing |-> "OSError", files |-> <<>>]}

BatchInit ==
    /\ discovery \in {"pairs", "ValueError"}
    /\ work \in SeqsUpTo(PairWork, MaxPairs)
    /\ batch_pc = "start"
    /\ pair_index = 0
    /\ file_index = 0
    /\ processed = {}
    /\ reported = {}
    /\ escaped = ""

BatchIdle ==
    /\ discovery = "pairs"
    /\ work = <<>>
    /\ batch_pc = "idle"
    /\ pair_index = 0
    /\ file_index = 0
    /\ processed = {}
    /\ reported = {}
    /\ escaped = ""

Init == AlignInit /\ ParseIdle /\ VersionsIdle /\ BatchIdle

Next == AlignNext

Spec == Init /\ [][Next]_vars

\* align_columns runs on: a pass of the loop that can be taken is taken
FairSpec == Spec /\ WF_vars(Next)

InitParse == AlignIdle /\ ParseInit /\ VersionsIdle /\ BatchIdle

SpecParse == InitParse /\ [][ParseNext]_vars

InitVersions == AlignIdle /\ ParseIdle /\ VersionsInit /\ BatchIdle

SpecVersions == InitVersions /\ [][VersionsNext]_vars

InitBatch == AlignIdle /\ ParseIdle /\ VersionsIdle /\ BatchInit

SpecBatch == InitBatch /\ [][BatchNext]_vars

-----------------------------------------------------------------------------
(* What the claims speak of. *)

Count(S) == Cardinality(S)

DecisionsOfPrevious(p) == {k \in 1..Len(decisions) : decisions[k].i = p}
DecisionsOfSubsequent(q) == {k \in 1..Len(decisions) : decisions[k].j = q}

\* every row of both tables is in exactly one decision, under a tag of its side
CoversEveryRowOnce ==
    /\ \A p \in 0..(Len(previous_pruefid.rows) - 1) :
          /\ Count(DecisionsOfPrevious(p)) = 1
          /\ \A k \in DecisionsOfPrevious(p) : decisions[k].diff \in {"REMOVED", ""}
    /\ \A q \in 0..(Len(subsequent_pruefid.rows) - 1) :
          /\ Count(DecisionsOfSubsequent(q)) = 1
          /\ \A k \in DecisionsOfSubsequent(q) : decisions[k].diff \in {"NEW", ""}

\* the rows of each side keep their order
KeepsOrder ==
    \A k, l \in 1..Len(decisions) :
        k < l => /\ (decisions[k].i # None /\ decisions[l].i # None => decisions[k].i < decisions[l].i)
                 /\ (decisions[k].j # None /\ decisions[l].j # None => decisions[k].j < decisions[l].j)

RowCountAddsUp ==
    /\ Len(result_df.rows) = Len(decisions)
    /\ Len(result_df.rows) =
          Len(previous_pruefid.rows) + Len(subsequent_pruefid.rows)
          - Count({k \in 1..Len(decisions) : decisions[k].diff = ""})

BothHaveSegmentname ==
    /\ "Segmentname" \in Range(previous_pruefid.columns)
    /\ "Segmentname" \in Range(subsequent_pruefid.columns)

\* C1: for any two tables with their key column align_columns returns a merged table
\* in which every row of previous is in exactly one row (REMOVED or UNCHANGED), every
\* row of subsequent is in exactly one row (NEW or UNCHANGED), both sides keep their
\* order, and the rows number len(previous) + len(subsequent) - the UNCHANGED rows.
C1_ReturnsCoveringTable ==
    (pc = "start" /\ BothHaveSegmentname)
        ~> (pc = "done" /\ CoversEveryRowOnce /\ KeepsOrder /\ RowCountAddsUp)

\* C3: the while loop makes at most len(previous) + len(subsequent) passes, since
\* every pass moves i, j or both forward; keys may be null and may repeat.
C3_LoopBound == iterations <= Len(previous_pruefid.rows) + Len(subsequent_pruefid.rows)

\* the pass of the loop that looks ahead is about to be taken
AtLookAhead ==
    /\ pc = "loop"
    /\ i < Len(segments_old) /\ j < Len(segments_new)
    /\ ~PyEq(segments_old[i + 1], segments_new[j + 1])

\* C10: when both cursors are in range and the keys differ: a first occurrence of
\* key(previous[i]) in subsequent[j:] at offset k > 0 gives k decisions NEW for
\* subsequent[j] .. subsequent[j+k-1], leaves i, and the next decision is UNCHANGED
\* for previous[i] and subsequent[j+k]; no occurrence gives REMOVED for previous[i]
\* and leaves j.
C10_LookAheadDecisions ==
    [][AtLookAhead =>
        /\ (MatchOffsets # {} /\ Min(MatchOffsets) > 0) =>
              /\ decisions' = decisions \o
                     [k \in 1..Min(MatchOffsets) |-> Decision("NEW", None, j + k - 1)]
              /\ i' = i
              /\ j' = j + Min(MatchOffsets)
              /\ PyEq(segments_old[i' + 1], segments_new[j' + 1])
        /\ MatchOffsets = {} =>
              /\ decisions' = Append(decisions, Decision("REMOVED", i, None))
              /\ i' = i + 1
              /\ j' = j]_vars

\* the columns of a returned table left and right of its diff column
DiffIndex == CHOOSE k \in 1..Len(result_df.columns) : result_df.columns[k] = "diff"
PrevSide == 1..(DiffIndex - 1)
NextSide == (DiffIndex + 1)..Len(result_df.columns)

Without(s, x) == SelectSeq(s, LAMBDA c : c # x)

\* the source column of the cell at a place of a side: the key first, then the data
\* columns in the order of the source table
SourceColumn(table, place) ==
    IF place = 1 THEN "Segmentname" ELSE Without(table.columns, "Segmentname")[place - 1]

PrevCell(row, place) == row[result_df.columns[place]]
NextCell(row, place) == row[result_df.columns[DiffIndex + place]]

\* the cell holds the source value, or nothing where the source is null or reads "nan"
CameFrom(cell, source) == cell = source \/ (cell = "" /\ source \in {NA, "nan"})

PrevSideFrom(row, p) ==
    \A place \in PrevSide :
        CameFrom(PrevCell(row, place), previous_pruefid.rows[p][SourceColumn(previous_pruefid, place)])

NextSideFrom(row, q) ==
    \A place \in 1..(Len(result_df.columns) - DiffIndex) :
        CameFrom(NextCell(row, place), subsequent_pruefid.rows[q][SourceColumn(subsequent_pruefid, place)])

\* C2: in every row of a returned table the diff tag is "", "NEW" or "REMOVED"; a
\* REMOVED row has every column of the subsequent side empty, a NEW row every column
\* of the previous side, the key columns included; an UNCHANGED row has its previous
\* side from one previous row and its subsequent side from one subsequent row, the
\* two of equal keys.
C2_RowsMatchTheirTag ==
    result_df.returned =>
        \A k \in 1..Len(result_df.rows) :
            LET row == result_df.rows[k]
            IN /\ row["diff"] \in {"", "NEW", "REMOVED"}
               /\ row["diff"] = "REMOVED" =>
                     \A place \in NextSide : row[result_df.columns[place]] = ""
               /\ row["diff"] = "NEW" =>
                     \A place \in PrevSide : row[result_df.columns[place]] = ""
               /\ row["diff"] = "" =>
                     \E p \in 1..Len(previous_pruefid.rows), q \in 1..Len(subsequent_pruefid.rows) :
                        /\ PyEq(previous_pruefid.rows[p]["Segmentname"],
                                subsequent_pruefid.rows[q]["Segmentname"])
                        /\ PrevSideFrom(row, p)
                        /\ NextSideFrom(row, q)

\* a returned table with data columns on both sides and a row of each tag
C2_Witness ==
    /\ result_df.returned
    /\ DiffIndex > 2 /\ Len(result_df.columns) > DiffIndex + 1
    /\ \A tag \in {"", "NEW", "REMOVED"} :
          \E k \in 1..Len(result_df.rows) : result_df.rows[k]["diff"] = tag

\* the rows lines 284-306 append for the cursors ii, jj when one list is exhausted
RECURSIVE WhileLoopRows(_, _)
WhileLoopRows(ii, jj) ==
    IF ii >= Len(segments_old) /\ jj >= Len(segments_new) THEN <<>>
    ELSE IF ii >= Len(segments_old)
         THEN <<SetDiff(create_row(df_old, df_new, None, jj), "NEW")>> \o WhileLoopRows(ii, jj + 1)
    ELSE IF jj >= Len(segments_new)
         THEN <<SetDiff(create_row(df_old, df_new, ii, None), "REMOVED")>> \o WhileLoopRows(ii + 1, jj)
    ELSE <<>>

\* what the while loop and lines 349-351 return for such tables
WhileLoopResult == SelectColumns(AsStrReplaceNan(WhileLoopRows(0, 0)), column_order)

OneTableWithoutRows == (Len(previous_pruefid.rows) = 0) # (Len(subsequent_pruefid.rows) = 0)

\* C7: when exactly one table has no rows, the merged table has one row per row of
\* the other table, in its order, all REMOVED when subsequent is the one without rows
\* and all NEW when previous is; it is the table the while loop would return.
C7_ShortcutIsTheLoop ==
    (result_df.returned /\ OneTableWithoutRows) =>
        /\ Len(result_df.rows) = Len(previous_pruefid.rows) + Len(subsequent_pruefid.rows)
        /\ \A k \in 1..Len(result_df.rows) :
              /\ result_df.rows[k]["diff"] =
                    IF Len(subsequent_pruefid.rows) = 0 THEN "REMOVED" ELSE "NEW"
              /\ IF Len(subsequent_pruefid.rows) = 0
                 THEN PrevSideFrom(result_df.rows[k], k)
                 ELSE NextSideFrom(result_df.rows[k], k)
        /\ result_df = WhileLoopResult

NullToEmpty(value) == IF value = NA THEN "" ELSE value

\* C8: on every path, on a side with a contributing source row, the key cell and
\* every data cell of a merged row hold the value of the source row unchanged,
\* whatever the text (the text "nan" too), a null source value becoming the empty
\* string; no merged cell holds a null marker.
C8_CellsVerbatim ==
    result_df.returned =>
        \A k \in 1..Len(result_df.rows) :
            LET row == result_df.rows[k]
                d == decisions[k]
            IN /\ \A place \in 1..Len(result_df.columns) : row[result_df.columns[place]] # NA
               /\ d.i # None =>
                     \A place \in PrevSide :
                        PrevCell(row, place) =
                            NullToEmpty(previous_pruefid.rows[d.i + 1][SourceColumn(previous_pruefid, place)])
               /\ d.j # None =>
                     \A place \in 1..(Len(result_df.columns) - DiffIndex) :
                        NextCell(row, place) =
                            NullToEmpty(subsequent_pruefid.rows[d.j + 1][SourceColumn(subsequent_pruefid, place)])

\* the column sequence the two column lists and the two version tags fix
ExpectedLayout ==
    LET prev == Without(previous_pruefid.columns, "Segmentname")
        next == Without(subsequent_pruefid.columns, "Segmentname")
    IN <<"Segmentname_FV2410">>
       \o [k \in 1..Len(prev) |-> prev[k] \o "_FV2410"]
       \o <<"diff", "Segmentname_FV2504">>
       \o [k \in 1..Len(next) |-> next[k] \o "_FV2504"]

\* C9: every returned table, the one without rows included, has the columns
\* Segmentname_<prev>, <col>_<prev> per previous data column in its order, diff,
\* Segmentname_<next>, <col>_<next> per subsequent data column in its order, and
\* every row has exactly these columns.
C9_ColumnLayout ==
    result_df.returned =>
        /\ result_df.columns = ExpectedLayout
        /\ \A k \in 1..Len(result_df.rows) : DOMAIN result_df.rows[k] = Range(ExpectedLayout)

\* a returned table of six columns with a NEW and a REMOVED row
C9_Witness ==
    /\ result_df.returned
    /\ Len(result_df.columns) = 6
    /\ \E k \in 1..Len(result_df.rows) : result_df.rows[k]["diff"] = "NEW"
    /\ \E k \in 1..Len(result_df.rows) : result_df.rows[k]["diff"] = "REMOVED"

\* the key cells of a merged row
PrevKeyCell(row) == row[SegmentnameCol(previous_formatversion)]
NextKeyCell(row) == row[SegmentnameCol(subsequent_formatversion)]

\* the keys [A, B] against [B, A]
KeysABvsBA ==
    /\ segments_old = <<"A", "B">>
    /\ segments_new = <<"B", "A">>

\* C11: the look-ahead is one-sided.  In every merged table no REMOVED row has a
\* previous-side key equal to the subsequent-side key of a row at or below it (an
\* empty key cell holds no key); a previous row is decided REMOVED only when its key
\* occurs nowhere in the part of subsequent not yet consumed, so no later decision
\* takes a subsequent row of that key.  The same is not so for NEW: [A, B] against
\* [B, A] gives NEW(B), UNCHANGED(A), REMOVED(B), the NEW key B being the previous
\* key of a later row.
C11_RemovedKeyNotBelow ==
    /\ result_df.returned =>
          \A k \in 1..Len(result_df.rows) :
              (result_df.rows[k]["diff"] = "REMOVED" /\ PrevKeyCell(result_df.rows[k]) # "") =>
                  \A l \in k..Len(result_df.rows) :
                      NextKeyCell(result_df.rows[l]) # PrevKeyCell(result_df.rows[k])
    /\ \A k \in 1..Len(decisions) :
          decisions[k].diff = "REMOVED" =>
              \A l \in k..Len(decisions) :
                  decisions[l].j # None =>
                      ~PyIdenticalOrEqual(segments_new[decisions[l].j + 1],
                                          segments_old[decisions[k].i + 1])
    /\ (pc = "done" /\ KeysABvsBA) =>
          decisions = <<Decision("NEW", None, 0), Decision("", 0, 1), Decision("REMOVED", 1, None)>>

\* the returned table of [A, B] against [B, A]: its first row is NEW with key B, its
\* third REMOVED with key B
C11_Witness ==
    /\ pc = "done" /\ result_df.returned
    /\ KeysABvsBA
    /\ result_df.rows[1]["diff"] = "NEW" /\ NextKeyCell(result_df.rows[1]) = "B"
    /\ result_df.rows[3]["diff"] = "REMOVED" /\ PrevKeyCell(result_df.rows[3]) = "B"

Filled(name) == submodule.entries[name] = "filled"

\* the version directories with a <nachrichtenformat>/csv directory, latest first
NonEmptyLatestFirst == SelectSeq(SortedLatestFirst(ListedNames), Filled)

\* the version directories, empty ones too, latest first
AllLatestFirst == SortedLatestFirst(ListedNames)

Neighbours(s) == [k \in 1..(Len(s) - 1) |-> <<s[k], s[k + 1]>>]

\* C4 as claimed: determine_consecutive_formatversions returns exactly the
\* (subsequent, previous) pairs adjacent in the list of the non-empty version
\* directories, latest first: empty directories are left out before adjacency is
\* taken, so two non-empty versions with only empty ones between them are paired.
C4_PairsOfNonEmptyNeighbours ==
    versions_pc = "done" => consecutive_formatversions = Neighbours(NonEmptyLatestFirst)

\* C4 as amended: determine_consecutive_formatversions returns exactly the
\* (subsequent, previous) pairs adjacent in the list of all version directories,
\* latest first, of which both are non-empty; no pair holds an empty directory, and
\* two non-empty versions with an empty one between them are not paired.
C4_NeighboursBothNonEmpty ==
    versions_pc = "done" =>
        consecutive_formatversions =
            SelectSeq(Neighbours(AllLatestFirst), LAMBDA pair : Filled(pair[1]) /\ Filled(pair[2]))

\* a pair was returned, and an empty directory lies between two non-empty ones
C4_Witness ==
    /\ versions_pc = "done"
    /\ consecutive_formatversions # <<>>
    /\ \E k \in 1..(Len(formatversion_list) - 2) :
          /\ Filled(formatversion_list[k])
          /\ submodule.entries[formatversion_list[k + 1]] = "empty"
          /\ Filled(formatversion_list[k + 2])

\* C5: in a batch run no failure of one check-id leaves the run: every other
\* check-id of the pair and every other pair is processed or reported, and the run
\* is aborted by nothing but a malformed version tag at discovery.
C5_FailuresStayWithTheirCheckId ==
    /\ batch_pc = "aborted" => discovery = "ValueError"
    /\ batch_pc = "done" =>
          \A p \in 1..Len(work) : \A f \in 1..Len(work[p].files) :
              \/ <<p, f>> \in processed
              \/ \E r \in reported : r[1] = p /\ r[2] = f

\* FV, then four decimal digits, the last two a month of 1..12
WellFormedTag(name) ==
    /\ Len(name) = 6
    /\ name[1] = "F" /\ name[2] = "V"
    /\ \A k \in 3..6 : name[k] \in DecimalDigits
    /\ 10 * DigitValue(name[5]) + DigitValue(name[6]) \in 1..12

\* C6: parse_formatversions accepts a string iff it is FV and four decimal digits
\* whose last two are a month of 1..12, returns (2000 + first two digits, last two
\* digits) for it and raises for every other string.
C6_AcceptsExactlyTheGrammar ==
    parse_pc = "done" =>
        /\ ~parsed.raised <=> WellFormedTag(formatversion)
        /\ ~parsed.raised =>
              /\ parsed.year = 2000 + 10 * DigitValue(formatversion[3]) + DigitValue(formatversion[4])
              /\ parsed.month = 10 * DigitValue(formatversion[5]) + DigitValue(formatversion[6])

====
